---- MODULE Spec2Model ----
(***************************************************************************)
(* A model of the `restate` blocking state machine:                        *)
(*   - common/map.rs       TransitionMap (nodes, insert, get_mut)           *)
(*   - blocking/machine.rs Machine (new, on_next, on_transition, start,     *)
(*                         send, current, context, is_done)                *)
(*   - blocking/context.rs Context / ContextMut handed to the callbacks     *)
(***************************************************************************)
EXTENDS Integers, Sequences, FiniteSets, TLC

\* ------------------------------------------------------------------ bounds
\* Number of on_next calls made while building a machine.
MaxTransitions == 2
\* Number of send calls made on a started machine.
MaxSends == 3

\* ----------------------------------------------------------- value domains
\* The state type S and the event type E (opaque values with equality).
States == {"Off", "On"}
Events == {"TurnOn", "TurnOff"}
\* Option<Box<dyn OnAction>>: no action, or a closure that increments an
\* integer context (machine.rs tests::with_context_test).
Actions == {"None", "inc"}
\* Option<F>: no global callback, or a closure.
Callbacks == {"None", "closure"}
\* Option<S>::None
NoState == "none"

VARIABLES
    transitions,    \* Machine.transitions.nodes : Vec<Node>
    current,        \* Machine.current : Option<S>
    done,           \* Machine.done
    context,        \* Machine.context (an integer context)
    on_transition,  \* Machine.on_transition : Option<F>
    step,           \* the Step type parameter: "Build" or "Ready"
    panicked,       \* on_next unwound with a panic; the machine is gone
    ret,            \* what the last send returned
    calls,          \* callback invocations made by the last send, in order
    nSends,         \* number of send calls so far
    nOk,            \* number of send calls that returned Ok
    nGlobal,        \* number of invocations of the global callback
    finalFired,     \* some send fired a transition registered with is_final
    inserted,       \* the transitions handed to on_next that were accepted
    applied,        \* the registered actions of the transitions fired, in order
    initial,        \* the state handed to start
    tableAtStart,   \* the table as it was when start was called
    twin            \* the same machine with the no-op in place of each
                    \* omitted callback, sent the same events

vars == <<transitions, current, done, context, on_transition, step, panicked,
          ret, calls, nSends, nOk, nGlobal, finalFired, inserted,
          applied, initial, tableAtStart, twin>>

\* ------------------------------------------------------------ TransitionMap
\* machine.rs Next { next, is_final, action }
NextRec(to, is_final, action) ==
    [next |-> to, is_final |-> is_final, action |-> action]

\* Index of the first node whose `from` equals the key, 0 when there is none
\* (nodes.iter_mut().find(|node| node.from == from)).
FindNode(nodes, from) ==
    IF \E i \in 1..Len(nodes) : nodes[i].from = from
    THEN CHOOSE i \in 1..Len(nodes) :
            /\ nodes[i].from = from
            /\ \A k \in 1..(i - 1) : nodes[k].from # from
    ELSE 0

\* Mutant of InsertPanics: the duplicate check is left out.
InsertNeverPanics(nodes, event, from) == FALSE

\* insert panics when the found node already holds the event.
InsertPanics(nodes, event, from) ==
    LET i == FindNode(nodes, from) IN
    /\ i # 0
    /\ \E j \in 1..Len(nodes[i].next) : nodes[i].next[j].event = event

\* Mutant of Insert: the node of the source state is not looked for.
InsertAlwaysNewNode(nodes, event, from, to) ==
    Append(nodes, [from |-> from, next |-> <<[event |-> event, to |-> to]>>])

\* TransitionMap::insert on the non-panicking paths.
Insert(nodes, event, from, to) ==
    LET i == FindNode(nodes, from) IN
    IF i # 0
    THEN [nodes EXCEPT ![i].next = Append(@, [event |-> event, to |-> to])]
    ELSE Append(nodes, [from |-> from, next |-> <<[event |-> event, to |-> to]>>])

\* Positions <<i, j>> visited by filter(from).flat_map(next).find(event).
MatchLocs(nodes, event, from) ==
    UNION {{<<i, j>> : j \in {k \in DOMAIN nodes[i].next :
                                  nodes[i].next[k].event = event}} :
           i \in {k \in DOMAIN nodes : nodes[k].from = from}}

LocBefore(l, m) == l[1] < m[1] \/ (l[1] = m[1] /\ l[2] <= m[2])

\* Mutant of GetMut: the filter on the source state is left out.
GetMutAnyNode(nodes, event, from) ==
    LET ms == UNION {{<<i, j>> : j \in {k \in DOMAIN nodes[i].next :
                                            nodes[i].next[k].event = event}} :
                     i \in DOMAIN nodes}
    IN IF ms = {} THEN <<0, 0>>
       ELSE CHOOSE l \in ms : \A m \in ms : LocBefore(l, m)

\* Mutant of GetMut: the first entry of the node is taken whatever its event.
GetMutFirstEntry(nodes, event, from) ==
    IF FindNode(nodes, from) = 0 THEN <<0, 0>> ELSE <<FindNode(nodes, from), 1>>

\* TransitionMap::get_mut: the first matching entry in iteration order,
\* as its position, or <<0, 0>> for None.
GetMut(nodes, event, from) ==
    LET ms == MatchLocs(nodes, event, from) IN
    IF ms = {} THEN <<0, 0>>
    ELSE CHOOSE l \in ms : \A m \in ms : LocBefore(l, m)

\* States::next collected: iter.next().map(|node| &node.from) until None.
StatesSeq(nodes) == [i \in 1..Len(nodes) |-> nodes[i].from]

\* TransitionMap::events: the iterator before its first call of next.
\* iter is the index of the node self.iter yields next; cur is <<n, j>>, the
\* node whose entries are being walked and the position of its next entry,
\* <<0, 0>> for None.
EventsNew == [iter |-> 1, cur |-> <<0, 0>>]

\* Mutant of EventsNext: the call of self.next() after moving to a node is
\* left out.
EventsNextNoRecurse(nodes, it) ==
    IF it.cur[1] # 0 /\ it.cur[2] <= Len(nodes[it.cur[1]].next)
    THEN [item |-> <<nodes[it.cur[1]].next[it.cur[2]].event>>,
          it |-> [it EXCEPT !.cur[2] = @ + 1]]
    ELSE IF it.iter <= Len(nodes)
         THEN [item |-> <<>>, it |-> [iter |-> it.iter + 1, cur |-> <<it.iter, 1>>]]
         ELSE [item |-> <<>>, it |-> it]

\* Events::next: the item (a sequence, empty for None) and the iterator after.
RECURSIVE EventsNext(_, _)
EventsNext(nodes, it) ==
    IF it.cur[1] # 0 /\ it.cur[2] <= Len(nodes[it.cur[1]].next)
    THEN [item |-> <<nodes[it.cur[1]].next[it.cur[2]].event>>,
          it |-> [it EXCEPT !.cur[2] = @ + 1]]
    ELSE IF it.iter <= Len(nodes)
         THEN EventsNext(nodes, [iter |-> it.iter + 1, cur |-> <<it.iter, 1>>])
         ELSE [item |-> <<>>, it |-> it]

\* The items next yields from an iterator until the first None.
RECURSIVE EventsCollect(_, _)
EventsCollect(nodes, it) ==
    LET r == EventsNext(nodes, it) IN
    IF r.item = <<>> THEN <<>> ELSE r.item \o EventsCollect(nodes, r.it)

\* What a traversal of events() yields.
EventsSeq(nodes) == EventsCollect(nodes, EventsNew)

\* ------------------------------------------------------------------ Machine
\* What a closure attached as an action does to the context.
\* Mutant of CallAction: every action, the no-op too, adds one.
CallActionAlwaysInc(a, ctx) == ctx + 1

\* "inc" adds one, "dbl" doubles, "noop" is the implementation for ().
CallAction(a, ctx) ==
    IF a = "inc" THEN ctx + 1 ELSE IF a = "dbl" THEN 2 * ctx ELSE ctx

NoRet == [kind |-> "None", state |-> NoState]
Ok(s) == [kind |-> "Ok", state |-> s]
Err(e) == [kind |-> e, state |-> NoState]

\* Machine::with_context(0)
Init ==
    /\ transitions = <<>>
    /\ current = NoState
    /\ done = FALSE
    /\ context = 0
    /\ on_transition = "None"
    /\ step = "Build"
    /\ panicked = FALSE
    /\ ret = NoRet
    /\ calls = <<>>
    /\ nSends = 0
    /\ nOk = 0
    /\ nGlobal = 0
    /\ finalFired = FALSE
    /\ inserted = {}
    /\ applied = <<>>
    /\ initial = NoState
    /\ tableAtStart = <<>>
    /\ twin = [current |-> NoState, done |-> FALSE, context |-> 0, ret |-> NoRet]

\* Number of entries held by the table.
RECURSIVE Count(_)
Count(nodes) ==
    IF nodes = <<>> THEN 0 ELSE Len(Head(nodes).next) + Count(Tail(nodes))

\* Machine::on_next: only while F = (), i.e. before on_transition.
\* A panic of insert unwinds through on_next, which owns the machine.
OnNext(from, to, event, action, is_final) ==
    /\ step = "Build"
    /\ ~panicked
    /\ on_transition = "None"
    /\ Count(transitions) < MaxTransitions
    /\ IF InsertPanics(transitions, event, from)
       THEN /\ panicked' = TRUE
            /\ UNCHANGED <<transitions, inserted>>
       ELSE /\ transitions' = Insert(transitions, event, from,
                                     NextRec(to, is_final, action))
            /\ inserted' = inserted \cup
                   {[from |-> from, event |-> event,
                     to |-> NextRec(to, is_final, action)]}
            /\ UNCHANGED panicked
    /\ UNCHANGED <<current, done, context, on_transition, step,
                   ret, calls, nSends, nOk, nGlobal, finalFired,
                   applied, initial, tableAtStart, twin>>

\* Machine::on_transition
OnTransition(f) ==
    /\ step = "Build"
    /\ ~panicked
    /\ on_transition = "None"
    /\ on_transition' = f
    /\ done' = FALSE
    /\ UNCHANGED <<transitions, current, context, step, panicked,
                   ret, calls, nSends, nOk, nGlobal, finalFired, inserted,
                   applied, initial, tableAtStart, twin>>

\* Mutant of Start: the initial state is dropped.
StartKeepsCurrent(initial_state) ==
    /\ step = "Build"
    /\ ~panicked
    /\ current' = current
    /\ done' = FALSE
    /\ step' = "Ready"
    /\ initial' = initial_state
    /\ tableAtStart' = transitions
    /\ twin' = [current |-> initial_state, done |-> FALSE, context |-> context,
                ret |-> NoRet]
    /\ UNCHANGED <<transitions, context, on_transition, panicked,
                   ret, calls, nSends, nOk, nGlobal, finalFired, inserted,
                   applied>>

\* Machine::start
Start(initial_state) ==
    /\ step = "Build"
    /\ ~panicked
    /\ current' = initial_state
    /\ done' = FALSE
    /\ step' = "Ready"
    /\ initial' = initial_state
    /\ tableAtStart' = transitions
    /\ twin' = [current |-> initial_state, done |-> FALSE, context |-> context,
                ret |-> NoRet]
    /\ UNCHANGED <<transitions, context, on_transition, panicked,
                   ret, calls, nSends, nOk, nGlobal, finalFired, inserted,
                   applied>>

\* The Context / ContextMut value a callback receives; `who` and `owner`
\* tell which callback received it (owner: the table entry holding the action).
View(who, owner, from, to, event, ctx) ==
    [who |-> who, owner |-> owner, from |-> from, to |-> to,
     event |-> event, context |-> ctx]

\* Mutant of MemReplace: the new content is returned instead of the old.
MemReplaceReturnsNew(state, next) ==
    [slot |-> next, prev |-> next, next |-> next]

\* Mutant of MemReplace: the slot keeps its old content.
MemReplaceKeepsSlot(state, next) ==
    [slot |-> state, prev |-> state, next |-> next]

\* Mutant of MemReplace: std::mem::swap(state, next), which leaves the old
\* state in the table entry.
MemSwap(state, next) == [slot |-> next, prev |-> state, next |-> state]

\* std::mem::replace(state, next.clone()): the slot holds the clone of next,
\* the old content is returned, and the entry's `next` (reached through the
\* &mut of get_mut) keeps its value.
MemReplace(state, next) == [slot |-> next, prev |-> state, next |-> next]

\* Mutant of DoneAfter: the final flag is ignored.
DoneAfterNeverLatches(is_final, d) == d

\* Mutant of DoneAfter: every fired transition ends the machine.
DoneAfterAlways(is_final, d) == TRUE

\* if *is_final { self.done = true; }
DoneAfter(is_final, d) == IF is_final THEN TRUE ELSE d

\* if let Some(f) = action.as_mut() { f.call(ContextMut { .. }) }
\* `state` is the slot self.current at the time of the call.
ActionCalls(action, owner, state, next, event, ctx) ==
    IF action # "None"
    THEN <<View("action", owner, state, next, event, ctx)>>
    ELSE <<>>

\* Mutant of ContextAfter: the context is written whether or not the
\* transition carries an action.
ContextAfterAlwaysInc(action, ctx) == ctx + 1

\* Mutant of ContextAfter: the action is called twice.
ContextAfterTwice(action, ctx) ==
    IF action # "None" THEN CallAction(action, CallAction(action, ctx)) ELSE ctx

\* The context after the action, if any, has run.
ContextAfter(action, ctx) ==
    IF action # "None" THEN CallAction(action, ctx) ELSE ctx

\* Mutant of GlobalCalls: the global callback is not called.
GlobalCallsSkipped(f, state, next, event, ctx) == <<>>

\* if let Some(f) = self.on_transition.as_mut() { f.call(Context { .. }) }
GlobalCalls(f, state, next, event, ctx) ==
    IF f # "None"
    THEN <<View("global", <<>>, state, next, event, ctx)>>
    ELSE <<>>

\* Mutant of SendCalls: the global callback runs before the action.
SendCallsGlobalFirst(acalls, gcalls) == gcalls \o acalls

\* The callbacks of one successful send, in the order send makes them.
SendCalls(acalls, gcalls) == acalls \o gcalls

\* Some accepted on_next registered (from, event) with is_final.
RegisteredFinal(from, event) ==
    \E r \in inserted : r.from = from /\ r.event = event /\ r.to.is_final

\* The body of Machine::send on a machine with table `nodes`, global callback
\* f, current state cur, done flag d and context ctx: what it returns, the
\* fields it leaves and the callbacks it makes.
SendOutcome(nodes, f, cur, d, ctx, event) ==
    IF d
    THEN [ret |-> Err("Done"), current |-> cur, done |-> d, context |-> ctx,
          calls |-> <<>>, globals |-> 0, nodes |-> nodes]
    ELSE LET loc == GetMut(nodes, event, cur) IN
         IF loc = <<0, 0>>
         THEN [ret |-> Err("InvalidTransition"), current |-> cur, done |-> d,
               context |-> ctx, calls |-> <<>>, globals |-> 0, nodes |-> nodes]
         ELSE LET node == nodes[loc[1]]
                  entry == node.next[loc[2]]
                  next == entry.to.next
                  action == entry.to.action
                  is_final == entry.to.is_final
                  rep == MemReplace(cur, next)
                  state == rep.slot
                  prev_state == rep.prev
                  acalls == ActionCalls(action, <<node.from, entry.event>>,
                                        state, rep.next, event, ctx)
                  ctx1 == ContextAfter(action, ctx)
                  gcalls == GlobalCalls(f, state, rep.next, event, ctx1)
              IN [ret |-> Ok(prev_state),
                  current |-> state,
                  done |-> DoneAfter(is_final, d),
                  context |-> ctx1,
                  calls |-> SendCalls(acalls, gcalls),
                  globals |-> Len(gcalls),
                  nodes |-> [nodes EXCEPT
                               ![loc[1]].next[loc[2]].to.next = rep.next]]

\* The action registered for (from, event) by an accepted on_next, as a
\* sequence: empty when the pair is not registered or carries no action.
RegisteredAction(from, event) ==
    IF \E r \in inserted : r.from = from /\ r.event = event /\ r.to.action # "None"
    THEN <<(CHOOSE r \in inserted :
               r.from = from /\ r.event = event /\ r.to.action # "None").to.action>>
    ELSE <<>>

\* The table with the no-op action () in place of each omitted action.
NoopTable(nodes) ==
    [i \in 1..Len(nodes) |->
        [from |-> nodes[i].from,
         next |-> [j \in 1..Len(nodes[i].next) |->
                     [event |-> nodes[i].next[j].event,
                      to |-> IF nodes[i].next[j].to.action = "None"
                             THEN [nodes[i].next[j].to EXCEPT !.action = "noop"]
                             ELSE nodes[i].next[j].to]]]]

\* The global callback with a closure that does nothing in place of an omitted
\* one.
NoopCallback(f) == IF f = "None" THEN "closure" ELSE f

\* Machine::send
Send(event) ==
    /\ step = "Ready"
    /\ nSends < MaxSends
    /\ nSends' = nSends + 1
    /\ \E out \in {SendOutcome(transitions, on_transition, current, done,
                                context, event)},
          two \in {SendOutcome(NoopTable(transitions),
                                NoopCallback(on_transition), twin.current,
                                twin.done, twin.context, event)} :
          /\ ret' = out.ret
          /\ current' = out.current
          /\ done' = out.done
          /\ context' = out.context
          /\ calls' = out.calls
          /\ transitions' = out.nodes
          /\ nGlobal' = nGlobal + out.globals
          /\ nOk' = IF out.ret.kind = "Ok" THEN nOk + 1 ELSE nOk
          /\ finalFired' = (finalFired \/
                            (out.ret.kind = "Ok" /\ RegisteredFinal(current, event)))
          /\ applied' = IF out.ret.kind = "Ok"
                        THEN applied \o RegisteredAction(current, event)
                        ELSE applied
          /\ twin' = [current |-> two.current, done |-> two.done,
                      context |-> two.context, ret |-> two.ret]
    /\ UNCHANGED <<on_transition, step, panicked, inserted, initial,
                   tableAtStart>>

Next ==
    \/ \E from \in States, to \in States, event \in Events,
          action \in Actions, is_final \in BOOLEAN :
            OnNext(from, to, event, action, is_final)
    \/ \E f \in Callbacks \ {"None"} : OnTransition(f)
    \/ \E s \in States : Start(s)
    \/ \E e \in Events : Send(e)

Spec == Init /\ [][Next]_vars

\* Machines whose transitions all carry an action, either the incrementing or
\* the doubling closure.
OrdActions == {"inc", "dbl"}

NextOrd ==
    \/ \E from \in States, to \in States, event \in Events,
          action \in OrdActions, is_final \in BOOLEAN :
            OnNext(from, to, event, action, is_final)
    \/ \E f \in Callbacks \ {"None"} : OnTransition(f)
    \/ \E s \in States : Start(s)
    \/ \E e \in Events : Send(e)

SpecOrd == Init /\ [][NextOrd]_vars

\* Machines whose transitions carry no action.
PlainActions == {"None"}

NextPlain ==
    \/ \E from \in States, to \in States, event \in Events,
          action \in PlainActions, is_final \in BOOLEAN :
            OnNext(from, to, event, action, is_final)
    \/ \E f \in Callbacks \ {"None"} : OnTransition(f)
    \/ \E s \in States : Start(s)
    \/ \E e \in Events : Send(e)

SpecPlain == Init /\ [][NextPlain]_vars

\* ---------------------------------------------------------------- properties
\* An accepted on_next registered the pair (from, event).
Registered(from, event) ==
    \E r \in inserted : r.from = from /\ r.event = event

\* The step is a call of send.
SendStep == step = "Ready" /\ nSends' = nSends + 1

\* C1: once a transition registered as final has fired, every later send
\* returns Err(Done) and leaves the current state, the context, the done flag
\* and the table as they were, and invokes neither an action nor the global
\* callback.
C1_DoneIsAbsorbing ==
    [][(finalFired /\ SendStep) =>
          /\ ret'.kind = "Done"
          /\ current' = current
          /\ context' = context
          /\ done' = done
          /\ transitions' = transitions
          /\ calls' = <<>>
          /\ nGlobal' = nGlobal]_vars

\* A send failed with Done in a state where every event is registered for the
\* current state.
C1_Witness ==
    /\ finalFired
    /\ ret.kind = "Done"
    /\ \A e \in Events : Registered(current, e)

\* C2: a send of an event with no transition registered for (current, event),
\* on a machine that is not done, returns Err(InvalidTransition) and leaves
\* current_state(), context() and is_done() as they were.
C2_InvalidTransitionNoChange ==
    [][\A e \in Events :
          (Send(e) /\ ~done /\ ~Registered(current, e)) =>
              /\ ret'.kind = "InvalidTransition"
              /\ current' = current
              /\ context' = context
              /\ done' = done]_vars

\* A send failed with InvalidTransition after an earlier one had succeeded,
\* on an event that is registered for another state.
C2_Witness ==
    /\ ret.kind = "InvalidTransition"
    /\ nOk >= 1
    /\ \E e \in Events : ~Registered(current, e) /\ \E r \in inserted : r.event = e

\* C3: the state returned in Ok(..) by a successful send is the state that
\* current_state() reported right before the call.
C3_OkReturnsPreviousState ==
    [][(SendStep /\ ret'.kind = "Ok") => ret'.state = current]_vars

\* A successful send that moved the machine to a different state.
C3_Witness ==
    /\ ret.kind = "Ok"
    /\ ret.state # current

\* C4: a send of an event registered for the current state, on a machine that
\* is not done, succeeds and leaves current_state() equal to the target
\* registered for exactly that (state, event) pair.
C4_SendMovesToRegisteredTarget ==
    [][\A e \in Events :
          (Send(e) /\ ~done /\ Registered(current, e)) =>
              /\ ret'.kind = "Ok"
              /\ \A r \in inserted :
                    (r.from = current /\ r.event = e) => current' = r.to.next]_vars

\* Two sends succeeded, the last one into a state that differs from the one it
\* left, with the same event registered to another target elsewhere.
C4_Witness ==
    /\ nOk >= 2
    /\ ret.kind = "Ok"
    /\ ret.state # current
    /\ Cardinality({r.to.next : r \in inserted}) = 2

\* The invocations of the global callback among the callbacks of the last send.
GlobalsOf(cs) == {i \in DOMAIN cs : cs[i].who = "global"}

\* The invocations of actions among the callbacks of the last send.
ActionsOf(cs) == {i \in DOMAIN cs : cs[i].who = "action"}

\* C5: a configured global callback is invoked exactly once by each send that
\* returns Ok and never by a send that returns Err(Done) or
\* Err(InvalidTransition); its invocations number the successful sends.
C5_GlobalOncePerOk ==
    /\ nGlobal = (IF on_transition # "None" THEN nOk ELSE 0)
    /\ (ret.kind \in {"Done", "InvalidTransition"}) => GlobalsOf(calls) = {}
    /\ (ret.kind = "Ok" /\ on_transition # "None") =>
           Cardinality(GlobalsOf(calls)) = 1

\* A machine with a global callback after a successful send and a failed one.
C5_Witness ==
    /\ on_transition # "None"
    /\ nOk >= 1
    /\ nGlobal >= 1
    /\ ret.kind = "InvalidTransition"

\* C6: a successful send firing a transition that carries an action invokes
\* that transition's action exactly once, no other action, and does so before
\* the global callback.
C6_ActionOnceBeforeGlobal ==
    [][\A e \in Events :
          (Send(e) /\ ret'.kind = "Ok") =>
              \A r \in inserted :
                  (r.from = current /\ r.event = e /\ r.to.action # "None") =>
                      /\ Cardinality(ActionsOf(calls')) = 1
                      /\ \A i \in ActionsOf(calls') :
                            /\ calls'[i].owner = <<current, e>>
                            /\ \A g \in GlobalsOf(calls') : i < g]_vars

\* A send invoked an action and then the global callback, on a machine whose
\* table holds another transition with an action.
C6_Witness ==
    /\ Len(calls) = 2
    /\ calls[1].who = "action"
    /\ calls[2].who = "global"
    /\ \E r \in inserted :
          <<r.from, r.event>> # calls[1].owner /\ r.to.action # "None"

\* C7: an on_next for a (from, event) pair that is already registered fails
\* (panics) and leaves every entry of the table as it was.
C7_DuplicateInsertRejected ==
    [][\A f \in States, t \in States, e \in Events, a \in Actions,
          fin \in BOOLEAN :
          (OnNext(f, t, e, a, fin) /\ Registered(f, e)) =>
              /\ panicked'
              /\ transitions' = transitions]_vars

\* A registration was rejected.
C7_Witness ==
    /\ panicked
    /\ Count(transitions) >= 1

\* The descriptor get_mut yields for a position.
DescAt(nodes, loc) == nodes[loc[1]].next[loc[2]].to

\* C8: lookup of a registered pair yields the descriptor inserted for it and
\* lookup of a pair that was not inserted yields None.
C8_LookupReturnsInserted ==
    \A s \in States, e \in Events :
        LET loc == GetMut(transitions, e, s) IN
        IF Registered(s, e)
        THEN /\ loc # <<0, 0>>
             /\ \A r \in inserted :
                   (r.from = s /\ r.event = e) => DescAt(transitions, loc) = r.to
        ELSE loc = <<0, 0>>

\* Two pairs are registered and some unregistered pair has its state registered
\* with another event and its event registered with another state.
C8_Witness ==
    /\ Cardinality(inserted) = 2
    /\ \E s \in States, e \in Events :
          /\ ~Registered(s, e)
          /\ \E r \in inserted : r.from = s
          /\ \E r \in inserted : r.event = e

\* C9: on a started machine is_done() holds exactly when some earlier send
\* fired a transition registered as final; the flag changes only in such a
\* send, from false to true.
C9_DoneIffFinalFired ==
    /\ [](step = "Ready" => (done <=> finalFired))
    /\ [][(done' # done) =>
             /\ SendStep
             /\ ~done
             /\ ret'.kind = "Ok"
             /\ \E e \in Events : Send(e) /\ RegisteredFinal(current, e)]_vars

\* The machine is done after a non-final send succeeded and a later send
\* failed.
C9_Witness ==
    /\ done
    /\ nOk >= 2
    /\ nSends > nOk

\* C10: on a successful send every view handed to a callback has `from` equal
\* to the state that was current before the call and `to` equal to the
\* registered target.
C10_ViewsCarrySourceAndTarget ==
    [][\A e \in Events :
          (Send(e) /\ ret'.kind = "Ok") =>
              \A i \in DOMAIN calls' :
                  /\ calls'[i].from = current
                  /\ \A r \in inserted :
                        (r.from = current /\ r.event = e) =>
                            calls'[i].to = r.to.next]_vars

\* C11: the context changes only through the action of the fired transition:
\* a failed send and a successful send of a transition without action leave it
\* as it was, a fired action leaves what it computed, and the global callback
\* sees that value and does not change it.
C11_ContextOnlyThroughActions ==
    [][\A e \in Events :
          Send(e) =>
              /\ (ret'.kind # "Ok") => context' = context
              /\ (ret'.kind = "Ok" /\ RegisteredAction(current, e) = <<>>) =>
                     context' = context
              /\ (ret'.kind = "Ok" /\ RegisteredAction(current, e) # <<>>) =>
                     context' = CallAction(RegisteredAction(current, e)[1], context)
              /\ \A g \in GlobalsOf(calls') : calls'[g].context = context']_vars

\* A send fired a transition without action, with a global callback, after an
\* earlier action had changed the context.
C11_Witness ==
    /\ ret.kind = "Ok"
    /\ ActionsOf(calls) = {}
    /\ GlobalsOf(calls) # {}
    /\ context >= 1

\* The context after the closures of a sequence of actions ran in order.
RECURSIVE ApplyAll(_, _)
ApplyAll(as, ctx) ==
    IF as = <<>> THEN ctx ELSE ApplyAll(Tail(as), CallAction(Head(as), ctx))

\* The table holds a single self-transition whose action increments.
OnlyIncrementingSelfTransition ==
    /\ Cardinality(inserted) = 1
    /\ \A r \in inserted : r.to.next = r.from /\ r.to.action = "inc"

\* C12: the context is the initial context with the actions of the fired
\* transitions applied once each in the order of the sends; n successful sends
\* of an incrementing self-transition leave the context n and the current
\* state where it was.
C12_ContextIsActionsInOrder ==
    /\ context = ApplyAll(applied, 0)
    /\ (step = "Ready" /\ OnlyIncrementingSelfTransition) =>
           /\ context = nOk
           /\ current = initial

\* An incrementing then a doubling action fired: the other order gives 1.
C12_Witness ==
    /\ applied = <<"inc", "dbl">>
    /\ context = 2

\* C13: states() yields each source state that has a registered transition
\* exactly once and no state that is only a target.
C13_StatesYieldsDistinctSources ==
    LET ss == StatesSeq(transitions) IN
    /\ {ss[i] : i \in DOMAIN ss} = {r.from : r \in inserted}
    /\ \A i \in DOMAIN ss : \A j \in DOMAIN ss : ss[i] = ss[j] => i = j

\* One state is registered with two events and the other state is only a
\* target.
C13_Witness ==
    /\ Cardinality(inserted) = 2
    /\ Len(StatesSeq(transitions)) = 1
    /\ \E r \in inserted : r.to.next # r.from

\* C14: the machine with no-ops in place of the omitted callbacks returns the
\* same results and has the same current state, done flag and context after
\* every sequence of events.
C14_OmittedEqualsNoop ==
    step = "Ready" =>
        /\ twin.ret = ret
        /\ twin.current = current
        /\ twin.done = done
        /\ twin.context = context

\* Two sends succeeded on a machine without global callback, one firing a
\* transition with an action and one a transition without.
C14_Witness ==
    /\ on_transition = "None"
    /\ nOk >= 2
    /\ Len(applied) = 1
    /\ twin.context = 1

\* C15: on a started machine the table is what it was when start was called,
\* and so are the registered targets and final flags and what states() and
\* events() yield.
C15_SendLeavesTable ==
    step = "Ready" =>
        /\ transitions = tableAtStart
        /\ StatesSeq(transitions) = StatesSeq(tableAtStart)
        /\ EventsSeq(transitions) = EventsSeq(tableAtStart)

\* A send succeeded into another state and a later send failed.
C15_Witness ==
    /\ nOk >= 1
    /\ nSends > nOk
    /\ current # initial

\* The target registered for (from, event).
RegisteredTarget(from, event) ==
    (CHOOSE r \in inserted : r.from = from /\ r.event = event).to.next

\* C16: the send that fires a final transition returns Ok with the prior
\* state, moves to the target, invokes the action and the global callback, if
\* any, once each and leaves is_done() true; a send fails with Done only after
\* such a send.
C16_FinalSendSucceeds ==
    [][\A e \in Events :
          Send(e) =>
              /\ (~done /\ RegisteredFinal(current, e)) =>
                     /\ ret' = Ok(current)
                     /\ current' = RegisteredTarget(current, e)
                     /\ done'
                     /\ Cardinality(ActionsOf(calls')) =
                            Len(RegisteredAction(current, e))
                     /\ Cardinality(GlobalsOf(calls')) =
                            (IF on_transition # "None" THEN 1 ELSE 0)
              /\ (ret'.kind = "Done") => finalFired]_vars

\* The last send fired a final transition into another state and invoked an
\* action and the global callback.
C16_Witness ==
    /\ done
    /\ ret.kind = "Ok"
    /\ ret.state # current
    /\ Len(calls) = 2

\* C17: the table holds at most one descriptor per (from, event): no two nodes
\* have equal source states, no node holds two entries with equal events, and
\* no node has an empty entry list.
C17_TableDeterministic ==
    /\ \A i \in DOMAIN transitions : \A k \in DOMAIN transitions :
          transitions[i].from = transitions[k].from => i = k
    /\ \A i \in DOMAIN transitions :
          LET es == transitions[i].next IN
          /\ es # <<>>
          /\ \A j \in DOMAIN es : \A k \in DOMAIN es :
                es[j].event = es[k].event => j = k

\* A node holds two entries, or an insert into a node was rejected.
C17_Witness ==
    \/ \E i \in DOMAIN transitions : Len(transitions[i].next) = 2
    \/ panicked /\ Len(transitions) = 1

\* C18: right after start(s) the current state is s, the machine is not done,
\* the context is the one given at construction and no callback was invoked.
C18_AfterStart ==
    (step = "Ready" /\ nSends = 0) =>
        /\ current = initial
        /\ current \in States
        /\ ~done
        /\ context = 0
        /\ calls = <<>>
        /\ nGlobal = 0
        /\ applied = <<>>

\* A machine was started with two transitions, an action and a global
\* callback configured.
C18_Witness ==
    /\ step = "Ready"
    /\ nSends = 0
    /\ on_transition # "None"
    /\ Cardinality(inserted) = 2
    /\ \E r \in inserted : r.to.action # "None"

\* How many items of a sequence equal x.
Occurrences(seq, x) == Cardinality({i \in DOMAIN seq : seq[i] = x})

\* C19: events() yields one item per registered transition: as many items as
\* accepted pairs, and each event as many times as it has source states.
C19_EventsYieldsOnePerTransition ==
    LET es == EventsSeq(transitions) IN
    /\ Len(es) = Cardinality(inserted)
    /\ \A e \in Events :
          Occurrences(es, e) = Cardinality({r \in inserted : r.event = e})

\* The same event is registered from two source states.
C19_Witness ==
    /\ Cardinality(inserted) = 2
    /\ Cardinality({r.event : r \in inserted}) = 1
    /\ Len(EventsSeq(transitions)) = 2

\* The tables that inserting the transitions of a set builds, one for each
\* order of insertion.
RECURSIVE TablesOf(_)
TablesOf(rs) ==
    IF rs = {} THEN {<<>>}
    ELSE UNION {{Insert(t, r.event, r.from, r.to) : t \in TablesOf(rs \ {r})} :
                r \in rs}

\* What lookup yields, as a sequence: empty for None.
Lookup(nodes, event, from) ==
    LET loc == GetMut(nodes, event, from) IN
    IF loc = <<0, 0>> THEN <<>> ELSE <<DescAt(nodes, loc)>>

\* What a caller sees of a send.
Observed(out) == [ret |-> out.ret, current |-> out.current, done |-> out.done]

\* What lookup yields for each pair.
LookupAll(nodes) ==
    [k \in States \X Events |-> Lookup(nodes, k[2], k[1])]

\* What a caller sees of the send of each event in the machine's state.
ObservedAll(nodes) ==
    [e \in Events |->
        Observed(SendOutcome(nodes, on_transition, current, done, context, e))]

\* C20: a table built from the same transitions in any other order yields the
\* same descriptor or absence for every pair, and a machine on it gives the
\* same result, current state and done flag for every event.
C20_InsertionOrderIrrelevant ==
    LET lookups == LookupAll(transitions)
        observed == ObservedAll(transitions)
    IN \A t \in TablesOf(inserted) \ {transitions} :
          /\ LookupAll(t) = lookups
          /\ step = "Ready" => ObservedAll(t) = observed

\* A send succeeded on a machine whose table differs from the one another
\* insertion order builds.
C20_Witness ==
    /\ nOk >= 1
    /\ \E t \in TablesOf(inserted) : t # transitions

\* The states some accepted on_next registered as a target.
RegisteredTargets == {r.to.next : r \in inserted}

\* C21: on a started machine current_state() is the state handed to start or
\* the target of a registered transition, and after a successful send it is a
\* registered target.
C21_CurrentIsInitialOrTarget ==
    step = "Ready" =>
        /\ current = initial \/ current \in RegisteredTargets
        /\ nOk = 0 => current = initial
        /\ ret.kind = "Ok" => current \in RegisteredTargets

\* Two sends succeeded on a machine started in a state that is no target.
C21_Witness ==
    /\ nOk >= 2
    /\ ret.kind = "Ok"
    /\ current # initial
    /\ initial \notin RegisteredTargets

====
